---- MODULE Spec2Model ----
(***************************************************************************)
(* Model of the training-time core of HistomicsDetect:                     *)
(*   - map_outputs         (histomics_detect/models/faster_rcnn.py)        *)
(*   - _roialign_coords,                                                   *)
(*     roialign            (roialign/roialign.py)                          *)
(*   - FasterRCNN.train_step and CustomCallback.on_epoch_end               *)
(*                                                                         *)
(* Numbers.  The code computes in float32.  The model computes the same    *)
(* expressions exactly, on rationals kept as integer numerator and         *)
(* positive integer denominator.  Anchor fields (x, y, w, h) are stored in *)
(* half-pixel units (the stored integer v stands for v/2 pixels), so that  *)
(* anchors at receptive-field centres of an odd field, and non-integral    *)
(* sizes, are representable.  field and anchor_px are in whole pixels.     *)
(*                                                                         *)
(* Tensors are functions over 0-based index ranges, as in the code; lists  *)
(* of boxes are sequences (row i of the code is element i+1).              *)
(***************************************************************************)
EXTENDS Integers, Sequences, FiniteSets, TLC

VARIABLES
    \* ---- one call of map_outputs -------------------------------------
    channels,      \* values per anchor slot in the raw network output
    anchors,       \* candidate boxes, rows <<x, y, w, h>> (half-pixels)
    anchor_px,     \* anchor sizes, whole pixels (int32), 0-based
    field,         \* receptive field edge, whole pixels
    gather_index,  \* the index tensor stacked for tf.gather_nd (l. 64-66)
    mapped,        \* outcome of the call
    \* ---- one call of roialign ----------------------------------------
    boxes,         \* regressed boxes, rows <<x, y, w, h>> (pixels)
    pool,          \* interpolation points per tile edge
    tiles,         \* tiles per box edge
    feat_channels, \* channels of the feature grid
    offsets,       \* per-box sample points in pixels (l. 96)
    interpolated,  \* outcome of the call
    \* ---- FasterRCNN.train_step and CustomCallback.on_epoch_end --------
    pc,            \* position of the training loop inside train_step
    model_global,  \* what the module-level name `model` resolves to
    fault,         \* the collaborator computation that raises in this step
    losses,        \* the loss tensors computed so far in this step
    gradients,     \* the local variable `gradients`
    weights,       \* per network, the updates applied to its weights
    applied,       \* networks whose optimizer-apply call ran in this step
    standard,      \* the metric bank: update_state calls since the reset
    result,        \* what the last train_step call returned or raised
    steps,         \* train_step calls started
    epoch          \* on_epoch_end calls made

mapVars == <<channels, anchors, anchor_px, gather_index, mapped>>
roiVars == <<boxes, pool, tiles, feat_channels, offsets, interpolated>>
trainVars == <<pc, model_global, fault, losses, gradients, weights, applied,
               standard, result, steps, epoch>>
vars == <<field, mapVars, roiVars, trainVars>>

----------------------------------------------------------------------------
(* Bounds of the model *)

MaxAnchors == 2      \* longest candidate list passed to map_outputs
GridRows == 2        \* rows of the feature grid
GridCols == 2        \* columns of the feature grid
MaxBoxes == 2        \* longest box list passed to roialign
MaxPool == 2         \* largest pool
MaxTiles == 1        \* largest tiles
MaxSteps == 2        \* train_step calls in a run
MaxEpochs == 2       \* on_epoch_end calls in a run

----------------------------------------------------------------------------
(* Exact arithmetic helpers *)

\* tf.cast(float, tf.int32) of the rational num/den (den > 0): the
\* fractional part is dropped, i.e. rounding is toward zero.
CastInt32(num, den) ==
    IF num >= 0 THEN num \div den ELSE -((-num) \div den)

\* floor of the rational num/den (den > 0)
Floor(num, den) == num \div den

\* 0-based index range of an axis of length n
Axis(n) == 0 .. (n - 1)

----------------------------------------------------------------------------
(* map_outputs *)

\* tf.argmax over a 0-based boolean vector: index of the first largest
\* entry; a vector without a TRUE entry has its first maximum at 0.
ArgMax(vec) ==
    IF \E k \in DOMAIN vec : vec[k]
    THEN CHOOSE k \in DOMAIN vec :
            vec[k] /\ \A j \in DOMAIN vec : (vec[j] => k <= j)
    ELSE 0

\* l. 46-48: anchor size index of a candidate.  The looked-up value is
\* column 3 of the anchor row (its height), cast to int32.
SizeIndex(anchor, px) ==
    LET x == CastInt32(anchor[4], 2)
    IN  ArgMax([k \in DOMAIN px |-> x = px[k]])

\* variant: the quotient rounded down instead of toward zero
GridPos_Floor(v, fld) == Floor(v - fld, 2 * fld)

\* l. 51-52: (anchors[:,c] - field/2) / field cast to int32.  With v the
\* coordinate in half-pixels the quotient is (v - field) / (2*field).
GridPos(v, fld) == CastInt32(v - fld, 2 * fld)

\* variant: the last axis split channel-major, [channels/K, K]
Reshaped_ChannelMajor(out, px) ==
    LET K   == Cardinality(DOMAIN px)
        D   == Cardinality(DOMAIN out[0][0][0])
        per == D \div K
    IN  [b \in DOMAIN out |->
          [r \in DOMAIN out[b] |->
            [c \in DOMAIN out[b][r] |->
              [k \in Axis(K) |->
                [j \in Axis(per) |-> out[b][r][c][j * K + k]]]]]]

\* l. 55-59: split the last axis of output into [K, channels/K]
Reshaped(out, px) ==
    LET K   == Cardinality(DOMAIN px)
        D   == Cardinality(DOMAIN out[0][0][0])
        per == D \div K
    IN  [b \in DOMAIN out |->
          [r \in DOMAIN out[b] |->
            [c \in DOMAIN out[b][r] |->
              [k \in Axis(K) |->
                [j \in Axis(per) |-> out[b][r][c][k * per + j]]]]]]

\* l. 64-66: rows <<0, py, px, index>>, one per candidate
StackIndex(anch, px, fld) ==
    [i \in DOMAIN anch |->
        << 0, GridPos(anch[i][2], fld), GridPos(anch[i][1], fld),
           SizeIndex(anch[i], px) >>]

InBounds(params, ix) ==
    /\ ix[1] \in DOMAIN params
    /\ ix[2] \in DOMAIN params[ix[1]]
    /\ ix[3] \in DOMAIN params[ix[1]][ix[2]]
    /\ ix[4] \in DOMAIN params[ix[1]][ix[2]][ix[3]]

Devices == {"CPU", "GPU"}

\* l. 63: tf.gather_nd.  An index outside params is an error on a CPU
\* kernel; a GPU kernel stores zeros in that output row instead.
GatherNd(params, indices, device) ==
    LET per == Cardinality(DOMAIN params[0][0][0][0])
    IN  IF \A i \in DOMAIN indices : InBounds(params, indices[i])
        THEN [raised |-> "none",
              value  |-> [i \in DOMAIN indices |->
                  params[indices[i][1]][indices[i][2]][indices[i][3]][indices[i][4]]]]
        ELSE IF device = "CPU"
        THEN [raised |-> "InvalidArgumentError", value |-> << >>]
        ELSE [raised |-> "none",
              value  |-> [i \in DOMAIN indices |->
                  IF InBounds(params, indices[i])
                  THEN params[indices[i][1]][indices[i][2]][indices[i][3]][indices[i][4]]
                  ELSE [j \in Axis(per) |-> 0]]]

\* l. 13-68
map_outputs(out, anch, px, fld, device) ==
    GatherNd(Reshaped(out, px), StackIndex(anch, px, fld), device)

----------------------------------------------------------------------------
(* FasterRCNN: the networks, the metric bank, the training step *)

\* l. 78-80: the three networks whose weights a step updates
Networks == {"backbone", "rpnetwork", "fastrcnn"}

\* l. 95-102: self.standard, seven metrics
MetricNames ==
    [m \in Axis(7) |->
        CASE m = 0 -> "mean_iou_rpn"
          [] m = 1 -> "mean_iou_align"
          [] m = 2 -> "auc_roc"
          [] m = 3 -> "pr_roc"
          [] m = 4 -> "true_positives"
          [] m = 5 -> "false_negatives"
          [] m = 6 -> "false_positives"]

\* a metric right after construction or reset_states
FreshBank == [m \in DOMAIN MetricNames |-> 0]

NoLosses == { }
NoGradients == [of |-> "none", wrt |-> "none"]
NoResult == [raised |-> "not called", keys |-> { }]

\* the module defines no name `model`; when train_step reads it (l. 169)
\* the lookup fails unless the importing program has bound that global,
\* here to the FasterRCNN instance being trained
ModelGlobals == {"undefined", "self"}

\* computations of user-supplied or external code that may raise in a step
Faults == {"none", "rpn_loss", "align_loss",
           "grad_backbone", "grad_rpn", "grad_align"}

\* the state after FasterRCNN.__init__, before any training
TrainInit(globals) ==
    /\ pc = "idle"
    /\ model_global \in globals
    /\ fault = "none"
    /\ losses = NoLosses
    /\ gradients = NoGradients
    /\ weights = [n \in Networks |-> << >>]
    /\ applied = { }
    /\ standard = FreshBank
    /\ result = NoResult
    /\ steps = 0
    /\ epoch = 0

\* no training in progress
TrainIdle == TrainInit({"undefined"})

otherVars == <<field, mapVars, roiVars>>

\* the step ends with an exception propagating to the caller
Raise(exc) ==
    /\ pc' = "idle"
    /\ result' = [raised |-> exc, keys |-> { }]

\* l. 105-126: unpack, normalise, filter and sample the anchors
Prepare ==
    /\ pc = "idle"
    /\ steps < MaxSteps
    /\ steps' = steps + 1
    /\ fault' \in Faults
    /\ pc' = "propose"
    /\ losses' = NoLosses
    /\ gradients' = NoGradients
    /\ applied' = { }
    /\ result' = NoResult
    /\ UNCHANGED <<model_global, weights, standard, epoch, otherVars>>

\* l. 131-141: backbone, proposal network, map_outputs on the anchors
Propose ==
    /\ pc = "propose"
    /\ pc' = "proposal_loss"
    /\ UNCHANGED <<model_global, fault, losses, gradients, weights, applied,
                   standard, result, steps, epoch, otherVars>>

\* l. 143-157: labels, objectness and regression loss, their weighted sum
ProposalLoss ==
    /\ pc = "proposal_loss"
    /\ IF fault = "rpn_loss"
       THEN Raise("LossError") /\ UNCHANGED losses
       ELSE /\ losses' = losses \cup {"rpn_obj_loss", "rpn_reg_loss", "rpn_total_loss"}
            /\ pc' = "refine"
            /\ UNCHANGED result
    /\ UNCHANGED <<model_global, fault, gradients, weights, applied,
                   standard, steps, epoch, otherVars>>

\* l. 159-164: refined boxes, roialign, refinement network
Refine ==
    /\ pc = "refine"
    /\ pc' = "refinement_loss"
    /\ UNCHANGED <<model_global, fault, losses, gradients, weights, applied,
                   standard, result, steps, epoch, otherVars>>

\* l. 166-169: the refinement loss, read through the global name `model`
RefinementLoss ==
    /\ pc = "refinement_loss"
    /\ IF model_global = "undefined"
       THEN Raise("NameError") /\ UNCHANGED losses
       ELSE IF fault = "align_loss"
       THEN Raise("LossError") /\ UNCHANGED losses
       ELSE /\ losses' = losses \cup {"align_reg_loss"}
            /\ pc' = "grad_backbone"
            /\ UNCHANGED result
    /\ UNCHANGED <<model_global, fault, gradients, weights, applied,
                   standard, steps, epoch, otherVars>>

\* variant: the backbone gradients are taken of the refinement loss
BackboneLoss_Refinement == "align_reg_loss"

\* the loss each network's gradients are taken of
\* l. 172
BackboneLoss == "rpn_total_loss"
\* l. 177
RpnetworkLoss == "rpn_total_loss"
\* l. 182
FastrcnnLoss == "align_reg_loss"

\* tape.gradient(loss, net.trainable_weights), assigned to `gradients`
Gradient(at, faulty, loss, net, next) ==
    /\ pc = at
    /\ IF fault = faulty
       THEN Raise("GradientError") /\ UNCHANGED gradients
       ELSE /\ loss \in losses
            /\ gradients' = [of |-> loss, wrt |-> net]
            /\ pc' = next
            /\ UNCHANGED result
    /\ UNCHANGED <<model_global, fault, losses, weights, applied,
                   standard, steps, epoch, otherVars>>

\* net.trainable_weights: each network owns its weights, no weight belongs
\* to two networks (fast_rcnn builds a head separate from the backbone)
TrainableWeights(net) == {net}

\* self.optimizer.apply_gradients(zip(gradients, net.trainable_weights))
Apply(at, net, next) ==
    /\ pc = at
    /\ weights' = [n \in Networks |->
                        IF n \in TrainableWeights(net)
                        THEN Append(weights[n], gradients.of)
                        ELSE weights[n]]
    /\ applied' = applied \cup {net}
    /\ pc' = next
    /\ UNCHANGED <<model_global, fault, losses, gradients,
                   standard, result, steps, epoch, otherVars>>

\* l. 172
GradBackbone ==
    Gradient("grad_backbone", "grad_backbone", BackboneLoss, "backbone", "apply_backbone")
\* l. 173-174
ApplyBackbone == Apply("apply_backbone", "backbone", "grad_rpn")
\* l. 177
GradRpnetwork ==
    Gradient("grad_rpn", "grad_rpn", RpnetworkLoss, "rpnetwork", "apply_rpn")
\* l. 178-179
ApplyRpnetwork == Apply("apply_rpn", "rpnetwork", "grad_align")
\* l. 182
GradFastrcnn ==
    Gradient("grad_align", "grad_align", FastrcnnLoss, "fastrcnn", "apply_align")
\* l. 183-184
ApplyFastrcnn == Apply("apply_align", "fastrcnn", "report")

\* l. 188-212: the IoUs, then update_state on each of the seven metrics
Report ==
    /\ pc = "report"
    /\ standard' = [m \in DOMAIN standard |-> standard[m] + 1]
    /\ pc' = "return"
    /\ UNCHANGED <<model_global, fault, losses, gradients, weights, applied,
                   result, steps, epoch, otherVars>>

\* l. 215-216: the keys of the losses dict
LossKeys == {"rpn_objectness", "rpn_regression", "align_regression"}

\* l. 214-219: the dict of the three losses and the metric results
Return ==
    /\ pc = "return"
    /\ result' = [raised |-> "none",
                  keys |-> LossKeys \cup { MetricNames[m] : m \in DOMAIN standard }]
    /\ pc' = "idle"
    /\ UNCHANGED <<model_global, fault, losses, gradients, weights, applied,
                   standard, steps, epoch, otherVars>>

train_step ==
    \/ Prepare \/ Propose \/ ProposalLoss \/ Refine \/ RefinementLoss
    \/ GradBackbone \/ ApplyBackbone
    \/ GradRpnetwork \/ ApplyRpnetwork
    \/ GradFastrcnn \/ ApplyFastrcnn
    \/ Report \/ Return

\* variant: the last metric of the bank is not reset
ResetIndices_AllButLast == Axis(6)

\* l. 224-230: the metrics on_epoch_end resets
ResetIndices == Axis(7)

\* l. 222-230: called by the training loop between steps
on_epoch_end ==
    /\ pc = "idle"
    /\ epoch < MaxEpochs
    /\ epoch' = epoch + 1
    /\ standard' = [m \in DOMAIN standard |->
                        IF m \in ResetIndices THEN 0 ELSE standard[m]]
    /\ UNCHANGED <<pc, model_global, fault, losses, gradients, weights, applied,
                   result, steps, otherVars>>

----------------------------------------------------------------------------
(* Inputs of a map_outputs call *)

\* a marker grid: every (row, col, channel) holds a different nonzero value
MarkerGrid(rows, cols, depth) ==
    [b \in {0} |->
      [r \in Axis(rows) |->
        [c \in Axis(cols) |->
          [d \in Axis(depth) |-> 1 + (r * cols + c) * depth + d]]]]

\* the configured anchor sizes (not sorted): 3 px in slot 0, 2 px in slot 1
AnchorSizeSets == { [k \in Axis(2) |-> IF k = 0 THEN 3 ELSE 2] }

ChannelsPerOutput == {2, 4}     \* objectness pair, box regression

Fields == {2, 3}

\* anchor centre coordinates, half-pixels
AnchorXs == {-3, 0, 3, 9, 16}
AnchorYs == {3, 9}
\* anchor edge lengths, half-pixels: 2 px, 2.5 px, 3 px, 5 px
AnchorEdges == {4, 5, 6, 10}

\* the anchors create_anchors tiles the image with are square: one edge
\* length per anchor, width = height
Anchors == { <<x, y, e, e>> : x \in AnchorXs, y \in AnchorYs, e \in AnchorEdges }

SeqsUpTo(S, n) == UNION { [1 .. m -> S] : m \in 0 .. n }

\* the raw network output [1, rows, cols, K*channels] handed to the call
output == MarkerGrid(GridRows, GridCols, Cardinality(DOMAIN anchor_px) * channels)

NotCalled == [raised |-> "not called", value |-> << >>]

\* no call of roialign in progress
RoiIdle ==
    /\ boxes = << >>
    /\ pool = 1
    /\ tiles = 1
    /\ feat_channels = 1
    /\ offsets = << >>
    /\ interpolated = NotCalled

InitMap ==
    /\ anchor_px \in AnchorSizeSets
    /\ field \in Fields
    /\ channels \in ChannelsPerOutput
    /\ anchors \in SeqsUpTo(Anchors, MaxAnchors)
    /\ gather_index = << >>
    /\ mapped = NotCalled
    /\ RoiIdle
    /\ TrainIdle

CallMapOutputs ==
    /\ mapped = NotCalled
    /\ \E device \in Devices :
          mapped' = map_outputs(output, anchors, anchor_px, field, device)
    /\ gather_index' = StackIndex(anchors, anchor_px, field)
    /\ UNCHANGED <<channels, anchors, anchor_px, field, roiVars, trainVars>>

NextMap == CallMapOutputs

SpecMap == InitMap /\ [][NextMap]_vars

----------------------------------------------------------------------------
(* Properties of map_outputs *)

Called == mapped # NotCalled

\* slots of anchor_px whose entry equals the candidate's width exactly
\* (width in half-pixels, anchor_px in pixels)
WidthSlots(anchor) == { k \in DOMAIN anchor_px : anchor[3] = 2 * anchor_px[k] }

\* grid cell <<row, col>> of a candidate by floor((v - field/2) / field)
FloorCell(anchor) ==
    << Floor(anchor[2] - field, 2 * field), Floor(anchor[1] - field, 2 * field) >>

CellInGrid(cell) == cell[1] \in Axis(GridRows) /\ cell[2] \in Axis(GridCols)

ChannelsOf(out) == Cardinality(DOMAIN out[0][0][0]) \div Cardinality(DOMAIN anchor_px)

\* the values at (row, col, slot, :) of the grid, last axis split
\* size-slot-major
MarkersAt(cell, k) ==
    [j \in Axis(ChannelsOf(output)) |->
        output[0][cell[1]][cell[2]][k * ChannelsOf(output) + j]]

RowPermutations(n) ==
    { p \in [1 .. n -> 1 .. n] : \A i, j \in 1 .. n : (p[i] = p[j] => i = j) }

\* C1: whenever some candidate's width equals no entry of anchor_sizes,
\* map_outputs raises and returns no table (stated here for candidate
\* lists that lie inside the grid, where nothing else can make it raise).
C1_MismatchRaises ==
    (/\ Called
     /\ \A i \in DOMAIN anchors : CellInGrid(FloorCell(anchors[i]))
     /\ \E i \in DOMAIN anchors : WidthSlots(anchors[i]) = {})
        => mapped.raised # "none"

\* C2: for candidates whose cells are in the grid and whose widths are in
\* anchor_sizes, row i of the result is output[0, r_i, c_i, k_i, :] with the
\* last axis split size-slot-major, and permuting the candidates permutes
\* the rows of the result the same way.
C2_RowsAreMarkers ==
    (/\ Called
     /\ \A i \in DOMAIN anchors :
            /\ CellInGrid(FloorCell(anchors[i]))
            /\ WidthSlots(anchors[i]) # {})
    => /\ mapped.raised = "none"
       /\ DOMAIN mapped.value = DOMAIN anchors
       /\ \A i \in DOMAIN anchors :
            \A k \in WidthSlots(anchors[i]) :
                mapped.value[i] = MarkersAt(FloorCell(anchors[i]), k)
       /\ \A p \in RowPermutations(Len(anchors)) : \A device \in Devices :
            LET permuted == [i \in DOMAIN anchors |-> anchors[p[i]]]
                again    == map_outputs(output, permuted, anchor_px, field, device)
            IN  /\ again.raised = "none"
                /\ again.value = [i \in DOMAIN anchors |-> mapped.value[p[i]]]

\* two candidates in different cells and different slots were mapped
C2_Witness ==
    /\ Called
    /\ mapped.raised = "none"
    /\ Len(anchors) = 2
    /\ \A i \in DOMAIN anchors :
            /\ CellInGrid(FloorCell(anchors[i]))
            /\ WidthSlots(anchors[i]) # {}
    /\ FloorCell(anchors[1])[1] # FloorCell(anchors[2])[1]
    /\ FloorCell(anchors[1])[2] # FloorCell(anchors[2])[2]
    /\ WidthSlots(anchors[1]) # WidthSlots(anchors[2])
    /\ mapped.value[1] # mapped.value[2]

\* C3 as stated: the grid column and row used are floor((x - field/2)/field)
\* and floor((y - field/2)/field), also where the quotient is negative.
C3_UsesFloor ==
    Called =>
        \A i \in DOMAIN anchors :
            /\ gather_index[i][2] = FloorCell(anchors[i])[1]
            /\ gather_index[i][3] = FloorCell(anchors[i])[2]

\* c is the rational num/den (den > 0) rounded toward zero
RoundsTowardZero(c, num, den) ==
    IF num >= 0
    THEN c >= 0 /\ c * den <= num /\ num < (c + 1) * den
    ELSE c <= 0 /\ (c - 1) * den < num /\ num <= c * den

\* C3 amended: the grid column and row used are (x - field/2)/field and
\* (y - field/2)/field rounded toward zero; they are the floor of the
\* quotient exactly when x (resp. y) is at least field/2 or the quotient is
\* an integer.
C3_RoundsTowardZero ==
    Called =>
        \A i \in DOMAIN anchors :
            /\ RoundsTowardZero(gather_index[i][2], anchors[i][2] - field, 2 * field)
            /\ RoundsTowardZero(gather_index[i][3], anchors[i][1] - field, 2 * field)
            /\ \A c \in {2, 3} :
                LET num == anchors[i][IF c = 2 THEN 2 ELSE 1] - field
                IN  (gather_index[i][c] = Floor(num, 2 * field))
                        <=> (num >= 0 \/ num % (2 * field) = 0)

\* a call with a candidate left of field/2 whose quotient is not integral
\* and one whose quotient is below -1
C3_Witness ==
    /\ Called
    /\ \E i \in DOMAIN anchors :
            /\ anchors[i][1] < field
            /\ (anchors[i][1] - field) % (2 * field) # 0
            /\ gather_index[i][3] = 0
    /\ \E i \in DOMAIN anchors :
            /\ anchors[i][1] < - field
            /\ gather_index[i][3] = -1

\* C4: whenever some candidate's position is outside the area covered by
\* the grid (its row or column is below 0 or at least the grid's count),
\* map_outputs fails with an index error and returns no table (stated here
\* for candidates whose widths are all in anchor_sizes).
C4_OutsideRaises ==
    (/\ Called
     /\ \A i \in DOMAIN anchors : WidthSlots(anchors[i]) # {}
     /\ \E i \in DOMAIN anchors : ~ CellInGrid(FloorCell(anchors[i])))
        => mapped.raised = "InvalidArgumentError"

----------------------------------------------------------------------------
(* Rationals <<numerator, denominator>>, denominator > 0, in lowest terms *)

Abs(a) == IF a < 0 THEN -a ELSE a

RECURSIVE Gcd(_, _)
Gcd(a, b) == IF b = 0 THEN a ELSE Gcd(b, a % b)

Rat(num, den) ==
    LET g == Gcd(Abs(num), den) IN << num \div g, den \div g >>

RAdd(p, q) == Rat(p[1] * q[2] + q[1] * p[2], p[2] * q[2])
RSub(p, q) == Rat(p[1] * q[2] - q[1] * p[2], p[2] * q[2])
RMul(p, q) == Rat(p[1] * q[1], p[2] * q[2])
\* p / k for an integer k > 0
RDivInt(p, k) == Rat(p[1], p[2] * k)
RLess(p, q) == p[1] * q[2] < q[1] * p[2]
RFloor(p) == p[1] \div p[2]
Zero == Rat(0, 1)
One == Rat(1, 1)

----------------------------------------------------------------------------
(* Dense tensors: a shape and the elements in row-major order *)

RECURSIVE Prod(_)
Prod(shape) == IF shape = << >> THEN 1 ELSE Head(shape) * Prod(Tail(shape))

\* row-major position of the index tuple ix in a tensor of this shape
RECURSIVE FlatIndex(_, _)
FlatIndex(shape, ix) ==
    IF shape = << >> THEN 0
    ELSE Head(ix) * Prod(Tail(shape)) + FlatIndex(Tail(shape), Tail(ix))

\* the index tuple at row-major position m
RECURSIVE Unflatten(_, _)
Unflatten(shape, m) ==
    IF shape = << >> THEN << >>
    ELSE << m \div Prod(Tail(shape)) >>
            \o Unflatten(Tail(shape), m % Prod(Tail(shape)))

Tensor(shape, F(_)) ==
    [shape |-> shape,
     data  |-> [m \in Axis(Prod(shape)) |-> F(Unflatten(shape, m))]]

At(t, ix) == t.data[FlatIndex(t.shape, ix)]

\* tf.reshape to a fully given shape: the elements keep their row-major
\* order; the element counts must agree
CanReshape(t, shape) == Prod(shape) = Prod(t.shape)
Reshape(t, shape) == [shape |-> shape, data |-> t.data]

----------------------------------------------------------------------------
(* _roialign_coords *)

\* variant: the x and y offsets are combined with x as the outer axis
roialign_coords_XOuter(box, n_points) ==
    LET size == n_points
        dw == RDivInt(Rat(box[3], 1), size)
        dh == RDivInt(Rat(box[4], 1), size)
    IN  Tensor(<<size * size, 2>>,
               LAMBDA ix :
                 LET a == ix[1] \div size
                     b == ix[1] % size
                 IN  IF ix[2] = 0
                     THEN RAdd(RAdd(RDivInt(dw, 2), RMul(dw, Rat(a, 1))), Rat(box[1], 1))
                     ELSE RAdd(RAdd(RDivInt(dh, 2), RMul(dh, Rat(b, 1))), Rat(box[2], 1)))

\* l. 5-54 (the function is named _roialign_coords in the source)
roialign_coords(box, n_points) ==
    LET \* l. 35: tf.range(0.0, n_points)
        indices == Tensor(<<n_points>>, LAMBDA ix : Rat(ix[1], 1))
        size    == Prod(indices.shape)
        \* l. 38-39
        delta_width  == RDivInt(Rat(box[3], 1), size)
        delta_height == RDivInt(Rat(box[4], 1), size)
        \* l. 42-43
        x_offset == Tensor(<<size>>, LAMBDA ix :
                      RAdd(RDivInt(delta_width, 2), RMul(delta_width, At(indices, ix))))
        y_offset == Tensor(<<size>>, LAMBDA ix :
                      RAdd(RDivInt(delta_height, 2), RMul(delta_height, At(indices, ix))))
        \* l. 46-47: stack with a zero column, axis = 1
        x_stack == Tensor(<<size, 2>>, LAMBDA ix :
                      IF ix[2] = 0 THEN At(x_offset, <<ix[1]>>) ELSE Zero)
        y_stack == Tensor(<<size, 2>>, LAMBDA ix :
                      IF ix[2] = 0 THEN Zero ELSE At(y_offset, <<ix[1]>>))
        \* l. 48: [1, n, 2] + [n, 1, 2], broadcast to [n, n, 2]
        summed  == Tensor(<<size, size, 2>>, LAMBDA ix :
                      RAdd(At(x_stack, <<ix[2], ix[3]>>), At(y_stack, <<ix[1], ix[3]>>)))
        \* l. 49
        flat    == Reshape(summed, <<summed.shape[1] * summed.shape[2], 2>>)
    IN  \* l. 52: add box[0:2] to every row
        Tensor(flat.shape, LAMBDA ix : RAdd(At(flat, ix), Rat(box[ix[2] + 1], 1)))

----------------------------------------------------------------------------
(* roialign *)

\* tfa.image.interpolate_bilinear(grid, query, indexing = 'xy'):
\* grid [1, H, W, C], query [1, Q, 2] rows (x, y) -> [1, Q, C].  The cell
\* corner is floor(q) clamped to 0 .. size-2 and the weight q - corner is
\* clamped to 0 .. 1, so a point outside the grid takes the edge value.
Clamp(v, lo, hi) == IF v < lo THEN lo ELSE IF v > hi THEN hi ELSE v
RClamp01(p) == IF RLess(p, Zero) THEN Zero ELSE IF RLess(One, p) THEN One ELSE p

interpolate_bilinear(grid, query) ==
    LET H == grid.shape[2]
        W == grid.shape[3]
        C == grid.shape[4]
    IN  Tensor(<<1, query.shape[2], C>>, LAMBDA ix :
          LET qx == At(query, <<ix[1], ix[2], 0>>)
              qy == At(query, <<ix[1], ix[2], 1>>)
              fx == Clamp(RFloor(qx), 0, W - 2)
              fy == Clamp(RFloor(qy), 0, H - 2)
              ax == RClamp01(RSub(qx, Rat(fx, 1)))
              ay == RClamp01(RSub(qy, Rat(fy, 1)))
              tl == At(grid, <<ix[1], fy, fx, ix[3]>>)
              tr == At(grid, <<ix[1], fy, fx + 1, ix[3]>>)
              bl == At(grid, <<ix[1], fy + 1, fx, ix[3]>>)
              br == At(grid, <<ix[1], fy + 1, fx + 1, ix[3]>>)
              top == RAdd(RMul(ax, RSub(tr, tl)), tl)
              bot == RAdd(RMul(ax, RSub(br, bl)), bl)
          IN  RAdd(RMul(ay, RSub(bot, top)), top))

\* l. 96: tf.vectorized_map of _roialign_coords over the rows of boxes
SamplePoints(bxs, n_points) ==
    Tensor(<<Len(bxs), n_points * n_points, 2>>, LAMBDA ix :
        At(roialign_coords(bxs[ix[1] + 1], n_points), <<ix[2], ix[3]>>))

\* l. 103: pixel coordinates to feature-grid coordinates
ToGrid(points, fld) ==
    Tensor(points.shape, LAMBDA ix :
        RDivInt(RSub(At(points, ix), Rat(fld, 2)), fld))

\* variant: the result reshaped to [N, pool, tiles, C]
OutShape_PoolByTiles(N, p, t, C) == <<N, p, t, C>>

\* l. 114-117: the shape the interpolated values are reshaped to
OutShape(N, p, t, C) == <<N, p * t, p * t, C>>

\* l. 57-119
roialign(features, bxs, fld, p, t) ==
    LET points  == SamplePoints(bxs, t * p)
        scaled  == ToGrid(points, fld)
        \* l. 107: reshape to [1, -1, 2]
        query   == Reshape(scaled, <<1, Prod(scaled.shape) \div 2, 2>>)
        values  == interpolate_bilinear(features, query)
        shape   == OutShape(Len(bxs), p, t, features.shape[4])
    IN  IF CanReshape(values, shape)
        THEN [raised |-> "none", value |-> Reshape(values, shape)]
        ELSE [raised |-> "InvalidArgumentError", value |-> << >>]

----------------------------------------------------------------------------
(* Inputs of a roialign call *)

FeatRows == 2
FeatCols == 3
FeatureChannels == {1, 2}

\* the feature grid [1, rows, cols, C] handed to the call: every element
\* holds a different value
features ==
    Tensor(<<1, FeatRows, FeatCols, feat_channels>>, LAMBDA ix :
        Rat(1 + FlatIndex(<<1, FeatRows, FeatCols, feat_channels>>, ix), 1))

BoxCorners == { <<0, 1>>, <<3, 0>> }
BoxSizes == { <<1, 2>>, <<4, 3>> }
Boxes == { <<c[1], c[2], s[1], s[2]>> : c \in BoxCorners, s \in BoxSizes }

\* no call of map_outputs in progress
MapIdle ==
    /\ channels = 2
    /\ anchors = << >>
    /\ anchor_px \in AnchorSizeSets
    /\ gather_index = << >>
    /\ mapped = NotCalled

InitRoi ==
    /\ field \in Fields
    /\ boxes \in SeqsUpTo(Boxes, MaxBoxes)
    /\ pool \in 1 .. MaxPool
    /\ tiles \in 1 .. MaxTiles
    /\ feat_channels \in FeatureChannels
    /\ offsets = << >>
    /\ interpolated = NotCalled
    /\ MapIdle
    /\ TrainIdle

CallRoialign ==
    /\ interpolated = NotCalled
    /\ interpolated' = roialign(features, boxes, field, pool, tiles)
    /\ offsets' = SamplePoints(boxes, tiles * pool)
    /\ UNCHANGED <<field, boxes, pool, tiles, feat_channels, mapVars, trainVars>>

NextRoi == CallRoialign

SpecRoi == InitRoi /\ [][NextRoi]_vars

----------------------------------------------------------------------------
(* Properties of roialign *)

RoiCalled == interpolated # NotCalled

\* C8: for N boxes (N >= 0), C feature channels and positive pool and
\* tiles, roialign does not raise and returns a tensor of shape
\* [N, pool*tiles, pool*tiles, C]; for N = 0 that tensor is empty.
C8_ResultShape ==
    RoiCalled =>
        /\ interpolated.raised = "none"
        /\ interpolated.value.shape =
              << Len(boxes), pool * tiles, pool * tiles, feat_channels >>
        /\ DOMAIN interpolated.value.data =
              Axis(Len(boxes) * pool * tiles * pool * tiles * feat_channels)
        /\ (Len(boxes) = 0 => interpolated.value.data = << >>)

\* roialign returned for an empty box list with more than one point per edge
C8_Witness ==
    /\ RoiCalled
    /\ Len(boxes) = 0
    /\ pool * tiles > 1
    /\ interpolated.raised = "none"
    /\ interpolated.value.shape[1] = 0
    /\ interpolated.value.shape[2] = pool * tiles

\* the feature value of channel c at the pixel position <<px, py>>
FeatureAt(px, py, c) ==
    LET q == Tensor(<<1, 1, 2>>, LAMBDA ix :
                RDivInt(RSub(IF ix[3] = 0 THEN px ELSE py, Rat(field, 2)), field))
    IN  At(interpolate_bilinear(features, q), <<0, 0, c>>)

\* C9: with n = pool*tiles, the sample point of a box (x, y, w, h) for
\* column i and row j is (x + w*(i+0.5)/n, y + h*(j+0.5)/n); the points are
\* listed row-major (j outer, i inner) and result[b, j, i, :] is the sample
\* at that point; every point is strictly inside the box; for pool = tiles
\* = 1 the one point is the box centre.
C9_SamplePoints ==
    RoiCalled =>
        LET n == pool * tiles IN
        /\ interpolated.raised = "none"
        /\ offsets.shape = << Len(boxes), n * n, 2 >>
        /\ \A b \in Axis(Len(boxes)) : \A j \in Axis(n) : \A i \in Axis(n) :
            LET box == boxes[b + 1]
                px == Rat(2 * n * box[1] + box[3] * (2 * i + 1), 2 * n)
                py == Rat(2 * n * box[2] + box[4] * (2 * j + 1), 2 * n)
            IN  /\ At(offsets, <<b, j * n + i, 0>>) = px
                /\ At(offsets, <<b, j * n + i, 1>>) = py
                /\ RLess(Rat(box[1], 1), px) /\ RLess(px, Rat(box[1] + box[3], 1))
                /\ RLess(Rat(box[2], 1), py) /\ RLess(py, Rat(box[2] + box[4], 1))
                /\ \A c \in Axis(feat_channels) :
                      At(interpolated.value, <<b, j, i, c>>) = FeatureAt(px, py, c)
                /\ (n = 1 => /\ px = Rat(2 * box[1] + box[3], 2)
                             /\ py = Rat(2 * box[2] + box[4], 2))

\* roialign sampled two boxes, the first not square, at several points per edge
C9_Witness ==
    /\ RoiCalled
    /\ interpolated.raised = "none"
    /\ Len(boxes) = 2
    /\ boxes[1][3] # boxes[1][4]
    /\ boxes[1] # boxes[2]
    /\ pool * tiles > 1
    /\ At(interpolated.value, <<0, 0, 1, 0>>) # At(interpolated.value, <<0, 1, 0, 0>>)

----------------------------------------------------------------------------
(* The training loop *)

InitTrain ==
    /\ TrainInit(ModelGlobals)
    /\ field = 2
    /\ MapIdle
    /\ RoiIdle

NextTrain == train_step \/ on_epoch_end

SpecTrain == InitTrain /\ [][NextTrain]_vars

----------------------------------------------------------------------------
(* Properties of the training loop *)

StepEnded == pc = "idle" /\ steps > 0

\* C5: a training step (one ground-truth box, a matching positive anchor,
\* no collaborator failing) runs through every stage without raising and
\* returns a mapping holding the three losses.
C5_StepReturnsLosses ==
    (StepEnded /\ fault = "none")
        => /\ result.raised = "none"
           /\ LossKeys \subseteq result.keys

\* C6: a training step is atomic in its weight updates: when it ends,
\* either all three optimizer-apply calls have run or none has.
C6_AllOrNothing ==
    StepEnded => (applied = { } \/ applied = Networks)

\* the loss whose gradient may change a network's weights
UpdateSource(net) ==
    IF net = "fastrcnn" THEN "align_reg_loss" ELSE "rpn_total_loss"

\* C7: backbone and proposal-network weights are changed only by updates
\* computed from the proposal total loss, refinement-network weights only
\* by updates computed from the refinement loss, and an optimizer-apply
\* call changes the weights of one network and of no other.
C7_UpdateSources ==
    /\ [](\A net \in Networks : \A i \in DOMAIN weights[net] :
              weights[net][i] = UpdateSource(net))
    /\ [][\A net \in Networks :
            weights'[net] # weights[net]
                => /\ weights'[net] = Append(weights[net], UpdateSource(net))
                   /\ gradients.of = UpdateSource(net)
                   /\ \A other \in Networks \ {net} : weights'[other] = weights[other]]_vars

\* a step applied its three updates and returned
C7_Witness ==
    /\ StepEnded
    /\ result.raised = "none"
    /\ applied = Networks
    /\ \A net \in Networks : Len(weights[net]) >= 1

\* C10: the metric bank is modified only by train_step's report stage and
\* by on_epoch_end; only on_epoch_end resets a metric; after on_epoch_end
\* every metric of the bank is in its reset state.
C10_MetricsLifecycle ==
    [][/\ (standard' # standard => (Report \/ on_epoch_end))
       /\ ((\E m \in DOMAIN standard : standard'[m] < standard[m]) => on_epoch_end)
       /\ (on_epoch_end => standard' = FreshBank)]_vars

\* on_epoch_end ran after a step that reported, and the bank is reset
C10_Witness ==
    /\ epoch >= 1
    /\ StepEnded
    /\ result.raised = "none"
    /\ standard = FreshBank

====
